---- MODULE Spec2Model ----
(***************************************************************************)
(* Model of the cache layer of the Seller application:                     *)
(*   - MemoryCacheService (lib/cache/memory): capacity-bounded TTL/LRU     *)
(*     cache, a Map plus a doubly-linked list with head/tail sentinels;    *)
(*   - CacheService (lib/cache/redis): the remote (Redis) client wrapper;  *)
(*   - UnifiedCacheService (lib/cache/index.ts): the facade over both.     *)
(* and of two of its neighbours:                                           *)
(*   - the cached product resolvers (graphql/resolvers);                   *)
(*   - the batch upload hook useProductUpload (hooks).                     *)
(***************************************************************************)
EXTENDS Integers, Sequences, FiniteSets, TLC

\* ------------------------------------------------------------------------
\* Bounds of the model
\* ------------------------------------------------------------------------
MaxCap == 2          \* capacities 0..MaxCap are tried
MaxTicks == 2        \* the clock advances at most this many seconds
MaxUpdates == 2      \* updateProduct is called at most this many times
MaxFiles == 2        \* a batch upload has at most this many files

Keys == {"A", "B", "C"}
Values == {"v1", "v2"}
TTLs == {0, 1}        \* seconds
Capacities == 0..MaxCap
UKeys == {"A", "B"}  \* the keys used through the facade
\* the patterns handed to invalidateCache
Patterns == {"*", "A*", "A", "?"}
\* what the remote backend does during one call of the facade
Outcomes == {"ok", "connectFails", "commandFails"}
\* the asynchronous callers of the facade
Callers == {"c1", "c2"}
CKeys == {"A"}       \* the key they contend for
CTTLs == {1}         \* and the time to live they set it with

Null == "null"       \* JavaScript null / undefined
NullId == -1         \* a null node reference

\* ------------------------------------------------------------------------
\* The heap of LRUNode objects
\* ------------------------------------------------------------------------
HEAD == 0
TAIL == 1
Pool == 2..(Cardinality(Keys) + 2)
NodeIds == {HEAD, TAIL} \cup Pool

VARIABLES
  now,        \* Date.now(), in milliseconds
  capacity,   \* MemoryCacheService.capacity
  nodes,      \* the LRUNode objects: id -> [key, value, expiry, prev, next]
  cache,      \* MemoryCacheService.cache: key -> node id (NullId: no entry)
  useRedis,   \* UnifiedCacheService.useRedis (redisCache is set exactly then)
  client,     \* CacheService.client: "null" or "created"
  remote,     \* the remote store: key -> [value (a JSON text), expiry]
  useOrder,   \* history: the stored keys, most recently used first
  remoteEverOk, \* history: some call to the remote backend has succeeded
  last,       \* history: the last operation, its arguments and its outcome
  pending,    \* the facade calls suspended at an await, one per caller
  resolver,   \* the GraphQL product resolvers: their two cache Maps, the
              \* product row, the calls suspended at an await
  upload      \* the useProductUpload hook: uploadState, the abort controller
              \* ref, the position of the upload loop

redisVars == <<useRedis, client, remote, remoteEverOk>>

\* class LRUNode: the fields of a node that nothing refers to
Blank == [key |-> Null, value |-> Null, expiry |-> 0, prev |-> NullId, next |-> NullId]

\* LRUNode constructor: expiry = Date.now() + ttl * 1000, prev = next = null
LRUNode(key, value, ttl, t) ==
  [key |-> key, value |-> value, expiry |-> t + ttl * 1000,
   prev |-> NullId, next |-> NullId]

\* isExpired with the comparison the wrong way round
isExpired_reversed(node, t) == t < node.expiry

\* LRUNode.isExpired
isExpired(node, t) == t > node.expiry

\* ---- reachability, used for allocation and for dropping garbage ----
RECURSIVE Reach(_, _, _, _)
Reach(h, from, dir, seen) ==
  IF from = NullId \/ from \in seen THEN seen
  ELSE Reach(h, IF dir = "next" THEN h[from].next ELSE h[from].prev, dir,
             seen \cup {from})

Live(h, c) ==
  {c[k] : k \in {x \in Keys : c[x] /= NullId}}
    \cup Reach(h, HEAD, "next", {}) \cup Reach(h, TAIL, "prev", {})

\* an object nothing refers to is collected: its slot becomes blank
Collect(h, c) ==
  LET live == Live(h, c)
  IN [n \in NodeIds |-> IF n \in live THEN h[n] ELSE Blank]

FreeIds(h, c) == Pool \ Live(h, c)
\* `new LRUNode`: any free slot will do; the one named after the key is taken
\* when it is free, the lowest free one otherwise
KeySlot == CHOOSE f \in [Keys -> Pool] : \A a, b \in Keys : a /= b => f[a] /= f[b]
NewId(h, c, key) ==
  LET free == FreeIds(h, c)
  IN IF KeySlot[key] \in free THEN KeySlot[key]
     ELSE CHOOSE n \in free : \A m \in free : n <= m

\* ---- private list helpers of MemoryCacheService ----
\* removeNode that forgets to relink the successor's prev pointer
removeNode_oneSided(h, n) ==
  IF h[n].prev /= NullId THEN [h EXCEPT ![h[n].prev].next = h[n].next] ELSE h

removeNode(h, n) ==
  LET h1 == IF h[n].prev /= NullId
            THEN [h EXCEPT ![h[n].prev].next = h[n].next] ELSE h
      h2 == IF h1[n].next /= NullId
            THEN [h1 EXCEPT ![h1[n].next].prev = h1[n].prev] ELSE h1
  IN h2

addToHead(h, n) ==
  LET h1 == [h EXCEPT ![n].prev = HEAD]
      h2 == [h1 EXCEPT ![n].next = h1[HEAD].next]
      h3 == IF h2[HEAD].next /= NullId
            THEN [h2 EXCEPT ![h2[HEAD].next].prev = n] ELSE h2
  IN [h3 EXCEPT ![HEAD].next = n]

\* moveToHead that leaves the node where it is
moveToHead_stays(h, n) == h

moveToHead(h, n) == addToHead(removeNode(h, n), n)

\* returns the heap after the removal and the removed node (NullId: none)
removeTail(h) ==
  LET lastNode == h[TAIL].prev
  IN IF lastNode /= NullId /\ lastNode /= HEAD
     THEN [nodes |-> removeNode(h, lastNode), node |-> lastNode]
     ELSE [nodes |-> h, node |-> NullId]

\* ---- public operations of MemoryCacheService, as state transformers ----
\* get whose expired branch drops the key from the map and leaves the node in
\* the list
MemoryCacheService_get_expiredStaysListed(h, c, key, t) ==
  LET node == c[key]
  IN IF node = NullId
     THEN [nodes |-> h, cache |-> c, res |-> Null, path |-> "miss"]
     ELSE IF isExpired(h[node], t)
     THEN [nodes |-> h, cache |-> [c EXCEPT ![key] = NullId],
           res |-> Null, path |-> "expired"]
     ELSE [nodes |-> moveToHead(h, node), cache |-> c,
           res |-> h[node].value, path |-> "hit"]

\* get whose miss takes the occasion to drop the tail entry when it has expired
MemoryCacheService_get_missDropsExpiredTail(h, c, key, t) ==
  LET node == c[key]
      tl == h[TAIL].prev
  IN IF node = NullId
     THEN IF tl /= HEAD /\ tl /= NullId /\ isExpired(h[tl], t)
          THEN [nodes |-> removeNode(h, tl), cache |-> [c EXCEPT ![h[tl].key] = NullId],
                res |-> Null, path |-> "miss"]
          ELSE [nodes |-> h, cache |-> c, res |-> Null, path |-> "miss"]
     ELSE IF isExpired(h[node], t)
     THEN [nodes |-> removeNode(h, node), cache |-> [c EXCEPT ![key] = NullId],
           res |-> Null, path |-> "expired"]
     ELSE [nodes |-> moveToHead(h, node), cache |-> c,
           res |-> h[node].value, path |-> "hit"]

MemoryCacheService_get(h, c, key, t) ==
  LET node == c[key]
  IN IF node = NullId
     THEN [nodes |-> h, cache |-> c, res |-> Null, path |-> "miss"]
     ELSE IF isExpired(h[node], t)
     THEN [nodes |-> removeNode(h, node), cache |-> [c EXCEPT ![key] = NullId],
           res |-> Null, path |-> "expired"]
     ELSE [nodes |-> moveToHead(h, node), cache |-> c,
           res |-> h[node].value, path |-> "hit"]

\* the stored-key branch of set that keeps the old value
setExisting_staleValue(h, existingNode, value, ttlSeconds, t) ==
  moveToHead([h EXCEPT ![existingNode].expiry = t + ttlSeconds * 1000], existingNode)

\* the stored-key branch of set that keeps the old expiry
setExisting_staleExpiry(h, existingNode, value, ttlSeconds, t) ==
  moveToHead([h EXCEPT ![existingNode].value = value], existingNode)

\* set, the branch of a key that is already stored: value and expiry are
\* replaced in the node, and the node moves to the head
setExisting(h, existingNode, value, ttlSeconds, t) ==
  LET h1 == [h EXCEPT ![existingNode].value = value]
      h2 == [h1 EXCEPT ![existingNode].expiry = t + ttlSeconds * 1000]
  IN moveToHead(h2, existingNode)

\* set of a new key that, when the cache is full, evicts an expired entry if
\* there is one and the tail only otherwise
setNew_evictsExpiredFirst(h, c, cap, key, value, ttlSeconds, t) ==
  LET id == NewId(h, c, key)
      h1 == [h EXCEPT ![id] = LRUNode(key, value, ttlSeconds, t)]
      size == Cardinality({k \in Keys : c[k] /= NullId})
      expired == {k \in Keys : c[k] /= NullId /\ isExpired(h[c[k]], t)}
      victim == CHOOSE k \in expired : TRUE
      rt == IF size >= cap
            THEN IF expired /= {}
                 THEN [nodes |-> removeNode(h1, c[victim]), node |-> c[victim]]
                 ELSE removeTail(h1)
            ELSE [nodes |-> h1, node |-> NullId]
      c1 == IF rt.node /= NullId
            THEN [c EXCEPT ![h1[rt.node].key] = NullId] ELSE c
  IN [nodes |-> addToHead(rt.nodes, id), cache |-> [c1 EXCEPT ![key] = id],
      path |-> IF rt.node /= NullId THEN "evict" ELSE "insert"]

\* set, the branch of a new key: the node is created, the tail is evicted when
\* cache.size >= capacity, and the node is put in the map and at the head
setNew(h, c, cap, key, value, ttlSeconds, t) ==
  LET id == NewId(h, c, key)
      h1 == [h EXCEPT ![id] = LRUNode(key, value, ttlSeconds, t)]
      size == Cardinality({k \in Keys : c[k] /= NullId})
      rt == IF size >= cap THEN removeTail(h1) ELSE [nodes |-> h1, node |-> NullId]
      c1 == IF rt.node /= NullId
            THEN [c EXCEPT ![h1[rt.node].key] = NullId] ELSE c
  IN [nodes |-> addToHead(rt.nodes, id), cache |-> [c1 EXCEPT ![key] = id],
      path |-> IF rt.node /= NullId THEN "evict" ELSE "insert"]

MemoryCacheService_set(h, c, cap, key, value, ttlSeconds, t) ==
  LET existingNode == c[key]
  IN IF existingNode /= NullId
     THEN [nodes |-> setExisting(h, existingNode, value, ttlSeconds, t),
           cache |-> c, path |-> "update"]
     ELSE setNew(h, c, cap, key, value, ttlSeconds, t)

\* delete that drops the key from the map and leaves the node in the list
MemoryCacheService_delete_staysListed(h, c, key) ==
  LET node == c[key]
  IN IF node /= NullId
     THEN [nodes |-> h, cache |-> [c EXCEPT ![key] = NullId], res |-> "true"]
     ELSE [nodes |-> h, cache |-> c, res |-> "false"]

MemoryCacheService_delete(h, c, key) ==
  LET node == c[key]
  IN IF node /= NullId
     THEN [nodes |-> removeNode(h, node), cache |-> [c EXCEPT ![key] = NullId],
           res |-> "true"]
     ELSE [nodes |-> h, cache |-> c, res |-> "false"]

\* clear that empties the map and leaves the sentinels as they are
MemoryCacheService_clear_mapOnly(h, c) ==
  [nodes |-> h, cache |-> [k \in Keys |-> NullId]]

MemoryCacheService_clear(h, c) ==
  [nodes |-> [h EXCEPT ![HEAD].next = TAIL, ![TAIL].prev = HEAD],
   cache |-> [k \in Keys |-> NullId]]

RECURSIVE cleanupKeys(_, _, _)
cleanupKeys(h, c, expiredKeys) ==
  IF expiredKeys = {} THEN [nodes |-> h, cache |-> c]
  ELSE LET key == CHOOSE k \in expiredKeys : TRUE
           node == c[key]
       IN IF node /= NullId
          THEN cleanupKeys(removeNode(h, node), [c EXCEPT ![key] = NullId],
                           expiredKeys \ {key})
          ELSE cleanupKeys(h, c, expiredKeys \ {key})

\* cleanup that stops after the first expired entry it removes
MemoryCacheService_cleanup_firstOnly(h, c, t) ==
  LET expired == {k \in Keys : c[k] /= NullId /\ isExpired(h[c[k]], t)}
  IN cleanupKeys(h, c, IF expired = {} THEN {} ELSE {CHOOSE k \in expired : TRUE})

\* cleanup that never removes the most recently used entry
MemoryCacheService_cleanup_sparesNewest(h, c, t) ==
  cleanupKeys(h, c, {k \in Keys : /\ c[k] /= NullId
                                  /\ isExpired(h[c[k]], t)
                                  /\ c[k] /= h[HEAD].next})

MemoryCacheService_cleanup(h, c, t) ==
  cleanupKeys(h, c, {k \in Keys : c[k] /= NullId /\ isExpired(h[c[k]], t)})

\* getStats().size
Size == Cardinality({k \in Keys : cache[k] /= NullId})

\* ------------------------------------------------------------------------
\* CacheService: the wrapper of the remote (Redis) client
\* ------------------------------------------------------------------------
DefaultCapacity == 1000

\* a key the remote store does not hold
Absent == [value |-> Null, expiry |-> 0]

\* JSON.stringify and JSON.parse on the cached values
JSON_stringify(v) == CASE v = "v1" -> "\"v1\"" [] v = "v2" -> "\"v2\"" [] OTHER -> "null"
JSON_parse(text) ==
  IF \E v \in Values : JSON_stringify(v) = text
  THEN CHOOSE v \in Values : JSON_stringify(v) = text
  ELSE Null

\* connect(): the client object is assigned before its connect() is awaited,
\* so it stays assigned when the connection fails
CacheService_connect(cl, connectOk) ==
  IF cl = "null" THEN [client |-> "created", threw |-> ~connectOk]
  ELSE [client |-> cl, threw |-> FALSE]

\* get: connect() is awaited outside the try block; a failing command is caught
\* and answered with null
CacheService_get(cl, rem, key, connectOk, cmdOk) ==
  LET cn == CacheService_connect(cl, connectOk)
  IN IF cn.threw THEN [client |-> cn.client, threw |-> TRUE, res |-> Null, ok |-> FALSE]
     ELSE IF cmdOk
     THEN [client |-> cn.client, threw |-> FALSE, ok |-> TRUE,
           res |-> IF rem[key].value /= Null THEN JSON_parse(rem[key].value) ELSE Null]
     ELSE [client |-> cn.client, threw |-> FALSE, res |-> Null, ok |-> FALSE]

\* set that writes the value and leaves the key's expiry as it was
CacheService_set_keepsExpiry(cl, rem, key, value, ttlSeconds, t, connectOk, cmdOk) ==
  LET cn == CacheService_connect(cl, connectOk)
  IN IF cn.threw THEN [client |-> cn.client, remote |-> rem, threw |-> TRUE, ok |-> FALSE]
     ELSE IF cmdOk /\ ttlSeconds > 0
     THEN [client |-> cn.client, threw |-> FALSE, ok |-> TRUE,
           remote |-> [rem EXCEPT ![key] =
                         [value |-> JSON_stringify(value),
                          expiry |-> IF rem[key].value /= Null THEN rem[key].expiry
                                     ELSE t + ttlSeconds * 1000]]]
     ELSE [client |-> cn.client, remote |-> rem, threw |-> FALSE, ok |-> FALSE]

\* set: connect() outside the try block; SETEX key ttl JSON, which the server
\* refuses for ttl <= 0; a failing command is caught and logged
CacheService_set(cl, rem, key, value, ttlSeconds, t, connectOk, cmdOk) ==
  LET cn == CacheService_connect(cl, connectOk)
  IN IF cn.threw THEN [client |-> cn.client, remote |-> rem, threw |-> TRUE, ok |-> FALSE]
     ELSE IF cmdOk /\ ttlSeconds > 0
     THEN [client |-> cn.client, threw |-> FALSE, ok |-> TRUE,
           remote |-> [rem EXCEPT ![key] = [value |-> JSON_stringify(value),
                                            expiry |-> t + ttlSeconds * 1000]]]
     ELSE [client |-> cn.client, remote |-> rem, threw |-> FALSE, ok |-> FALSE]

\* ------------------------------------------------------------------------
\* UnifiedCacheService: the facade
\* ------------------------------------------------------------------------
\* a try block without its catch: what the attempt threw reaches the caller
TryCatch_rethrows(attempt, handler) == attempt

\* try { attempt } catch { handler }: the handler's outcome when the attempt
\* threw, the attempt's own otherwise
TryCatch(attempt, handler) == IF attempt.threw THEN handler ELSE attempt

\* the call of a method the object does not have: a TypeError
TypeError == [threw |-> TRUE]

\* get that goes to the remote backend whether or not one is configured
Unified_get_ignoresUseRedis(h, c, cl, rem, redis, key, t, connectOk, cmdOk) ==
  LET m == MemoryCacheService_get(h, c, key, t)
      r == CacheService_get(cl, rem, key, connectOk, cmdOk)
      viaRedis == [nodes |-> h, cache |-> c, client |-> r.client, res |-> r.res,
                   path |-> IF r.ok THEN "remote" ELSE "swallowed", mpath |-> "-",
                   ok |-> r.ok \/ (cl = "null" /\ ~r.threw), threw |-> r.threw]
      fallback == [nodes |-> m.nodes, cache |-> m.cache, client |-> r.client,
                   res |-> m.res, path |-> "fallback", mpath |-> m.path,
                   ok |-> FALSE, threw |-> FALSE]
  IN TryCatch(viaRedis, fallback)

Unified_get(h, c, cl, rem, redis, key, t, connectOk, cmdOk) ==
  LET m == MemoryCacheService_get(h, c, key, t)
      r == CacheService_get(cl, rem, key, connectOk, cmdOk)
      viaRedis == [nodes |-> h, cache |-> c, client |-> r.client, res |-> r.res,
                   path |-> IF r.ok THEN "remote" ELSE "swallowed", mpath |-> "-",
                   ok |-> r.ok \/ (cl = "null" /\ ~r.threw), threw |-> r.threw]
      fallback == [nodes |-> m.nodes, cache |-> m.cache, client |-> r.client,
                   res |-> m.res, path |-> "fallback", mpath |-> m.path,
                   ok |-> FALSE, threw |-> FALSE]
  IN IF redis THEN TryCatch(viaRedis, fallback)
     ELSE [nodes |-> m.nodes, cache |-> m.cache, client |-> cl, res |-> m.res,
           path |-> "memory", mpath |-> m.path, ok |-> FALSE, threw |-> FALSE]

Unified_set(h, c, cap, cl, rem, redis, key, value, ttlSeconds, t, connectOk, cmdOk) ==
  LET m == MemoryCacheService_set(h, c, cap, key, value, ttlSeconds, t)
      r == CacheService_set(cl, rem, key, value, ttlSeconds, t, connectOk, cmdOk)
      viaRedis == [nodes |-> h, cache |-> c, client |-> r.client,
                   remote |-> r.remote,
                   path |-> IF r.ok THEN "remote" ELSE "swallowed",
                   ok |-> r.ok \/ (cl = "null" /\ ~r.threw), threw |-> r.threw]
      fallback == [nodes |-> m.nodes, cache |-> m.cache, client |-> r.client,
                   remote |-> r.remote, path |-> "fallback", ok |-> FALSE,
                   threw |-> FALSE]
  IN IF redis THEN TryCatch(viaRedis, fallback)
     ELSE [nodes |-> m.nodes, cache |-> m.cache, client |-> cl, remote |-> rem,
           path |-> "memory", ok |-> FALSE, threw |-> FALSE]

\* delete: CacheService has no method `delete` (its method is `del`), so the
\* call in the try block throws a TypeError, which is caught; the in-process
\* delete follows
Unified_delete(h, c, redis, key) ==
  LET m == MemoryCacheService_delete(h, c, key)
      viaRedis == [nodes |-> h, cache |-> c, res |-> Null, path |-> "remote",
                   threw |-> TypeError.threw]
      fallback == [nodes |-> m.nodes, cache |-> m.cache, res |-> m.res,
                   path |-> "fallback", threw |-> FALSE]
  IN IF redis THEN TryCatch(viaRedis, fallback)
     ELSE [nodes |-> m.nodes, cache |-> m.cache, res |-> m.res,
           path |-> "memory", threw |-> FALSE]

\* clear: CacheService has no method `clear`; the TypeError is caught and the
\* in-process cache is cleared
Unified_clear(h, c, redis) ==
  LET m == MemoryCacheService_clear(h, c)
      viaRedis == [nodes |-> h, cache |-> c, path |-> "remote",
                   threw |-> TypeError.threw]
      fallback == [nodes |-> m.nodes, cache |-> m.cache, path |-> "fallback",
                   threw |-> FALSE]
  IN IF redis THEN TryCatch(viaRedis, fallback)
     ELSE [nodes |-> m.nodes, cache |-> m.cache, path |-> "memory",
           threw |-> FALSE]

\* ---- invalidateCache(pattern) ----
\* the characters of a pattern and of a key
Text(str) ==
  CASE str = "*" -> <<"*">> [] str = "A*" -> <<"A", "*">> [] str = "?" -> <<"?">>
    [] OTHER -> <<str>>

\* pattern.includes('*')
includes(str, ch) == \E i \in 1..Len(Text(str)) : Text(str)[i] = ch

\* the glob matching of the remote KEYS command: `*` any run of characters,
\* `?` any one character, any other character itself
RECURSIVE Glob(_, _)
Glob(p, t) ==
  IF p = <<>> THEN t = <<>>
  ELSE IF Head(p) = "*"
  THEN Glob(Tail(p), t) \/ (t /= <<>> /\ Glob(p, Tail(t)))
  ELSE /\ t /= <<>>
       /\ Head(p) = "?" \/ Head(p) = Head(t)
       /\ Glob(Tail(p), Tail(t))
Matches(pattern, key) == Glob(Text(pattern), Text(key))

\* invalidateCache: redisCache.invalidateByPattern is no method of CacheService
\* (its method is invalidatePattern), so the call throws a TypeError, which is
\* caught; then the facade's clear() runs when the pattern includes '*'
invalidateCache(h, c, redis, pattern) ==
  LET none == [nodes |-> h, cache |-> c, path |-> "kept", threw |-> FALSE]
      viaRedis == [nodes |-> h, cache |-> c, path |-> "kept",
                   threw |-> TypeError.threw]
      first == IF redis THEN TryCatch(viaRedis, none) ELSE none
      cl == Unified_clear(h, c, redis)
  IN IF first.threw THEN first
     ELSE IF includes(pattern, "*")
     THEN [nodes |-> cl.nodes, cache |-> cl.cache, path |-> "cleared",
           threw |-> cl.threw]
     ELSE none

\* ---- history bookkeeping ----
RECURSIVE Without(_, _)
Without(s, k) ==
  IF s = <<>> THEN <<>>
  ELSE IF Head(s) = k THEN Without(Tail(s), k)
  ELSE <<Head(s)>> \o Without(Tail(s), k)

RECURSIVE Stored(_, _)
Stored(s, c) ==
  IF s = <<>> THEN <<>>
  ELSE IF c[Head(s)] /= NullId THEN <<Head(s)>> \o Stored(Tail(s), c)
  ELSE Stored(Tail(s), c)

\* a use of key puts it first; keys no longer stored drop out
Used(s, key, c) == Stored(<<key>> \o Without(s, key), c)

Op(op, key, val, ttl, res, path, follows) ==
  [op |-> op, key |-> key, val |-> val, ttl |-> ttl, res |-> res, path |-> path,
   follows |-> follows]

\* how a call of the facade ended: "error" when it threw to its caller
Path(r) == IF r.threw THEN "error" ELSE r.path

\* ------------------------------------------------------------------------
\* The product resolvers and their caches (graphql/resolvers)
\* ------------------------------------------------------------------------
\* the cache keys of product p1 of user u1, as the resolvers build them
CacheKeys == {"products:all", "product:p1", "product:p1:images",
              "product:p1:features", "user:u1:products"}
Queries == {"getAllproducts", "getProductById"}
Mutations == {"updateProduct", "deleteProduct"}

\* Map.get(key) of a key the Map does not hold
NoEntry == [present |-> FALSE, value |-> Null, expiry |-> 0]

\* the Map of cache.ts (cacheFunction) and the Map of cache.helpers.ts are two
\* module-level constants of two modules
FreshResolver ==
  [wrapperCache |-> [k \in CacheKeys |-> NoEntry],
   helperCache |-> [k \in CacheKeys |-> NoEntry],
   product |-> [version |-> 0, deleted |-> FALSE],
   calls |-> [c \in Callers |-> [pc |-> "idle", query |-> Null, key |-> Null]],
   mutation |-> "idle"]

\* cacheFunction: cacheKey = key || keyGenerator(...args)
cacheKey(query) == IF query = "getAllproducts" THEN "products:all" ELSE "product:p1"
\* the ttl option of each wrapped resolver, in seconds
AllProductsTTL == 180
ProductTTL == 300
ttlOf(query) == IF query = "getAllproducts" THEN AllProductsTTL ELSE ProductTTL

\* what the wrapped resolver reads from the database
findMany(product) ==
  [products |-> IF product.deleted THEN <<>> ELSE <<product.version>>]
findUnique(product) == [version |-> product.version, deleted |-> product.deleted]
resolve(query, product) ==
  IF query = "getAllproducts" THEN findMany(product) ELSE findUnique(product)

\* cache.helpers invalidateCache(keys): each key is deleted from the Map it is
\* given; no key means all
invalidateKeys(map, keys) ==
  IF keys = {} THEN [k \in CacheKeys |-> NoEntry]
  ELSE [k \in CacheKeys |-> IF k \in keys THEN NoEntry ELSE map[k]]

\* the keys updateProduct and deleteProduct hand to clearCache
ClearedKeys == {"products:all", "product:p1", "product:p1:images",
                "product:p1:features", "user:u1:products"}

\* ------------------------------------------------------------------------
\* The useProductUpload hook (hooks/useProductUpload.ts)
\* ------------------------------------------------------------------------
\* startUpload's default for options.maxRetries
maxRetries == 3

UploadProgress(stage, progress, isActive, currentFile, completed, total, errors) ==
  [stage |-> stage, progress |-> progress, isActive |-> isActive,
   currentFile |-> currentFile, completed |-> completed, total |-> total,
   errors |-> errors]

\* the initial uploadState, which the auto-clear timer restores
NoUpload == UploadProgress("", 0, FALSE, "", 0, 0, <<>>)
\* the state cancelUpload sets
CancelledUpload == UploadProgress("Cancelled", 0, FALSE, "", 0, 0, <<>>)

\* the hook before any upload. pc is the await the upload loop is suspended
\* at; armed says that the request in flight listens to the signal of the
\* abort controller, aborted that the signal has fired for it; errors is the
\* loop's local errors array (its length); cancelAt and ev are history: the
\* file the loop was at when cancelUpload was called during a batch of
\* several files, and what the last step started or delivered
FreshUpload ==
  [uploadState |-> NoUpload, abortControllerRef |-> "null", pc |-> "idle",
   files |-> 0, i |-> 0, attempt |-> 0, armed |-> FALSE, aborted |-> FALSE,
   errors |-> 0, cancelAt |-> NullId, ev |-> {}]

fileName(i) == "file" \o ToString(i + 1)

\* one turn of the loop for files[i], up to the first await: the stage is
\* set, retry calls uploadSingleFile, whose getUploadSignature starts a fetch
\* with the signal of abortControllerRef.current, if there is one
uploadFile(u, i) ==
  [u EXCEPT !.uploadState.stage =
              "Uploading " \o ToString(i + 1) \o " of " \o ToString(u.files),
            !.uploadState.currentFile = fileName(i),
            !.uploadState.progress = (i * 100) \div u.files,
            !.i = i, !.attempt = 1, !.pc = "sig",
            !.armed = (u.abortControllerRef = "live"), !.aborted = FALSE,
            !.ev = {"request"}]

\* after the loop: the final stage, onError or onSuccess, the auto-clear timer
finalize(u) ==
  [u EXCEPT !.uploadState.stage =
              IF u.errors > 0 THEN "Completed with errors" ELSE "Upload complete",
            !.uploadState.progress = 100,
            !.uploadState.isActive = FALSE,
            !.pc = "clearing", !.armed = FALSE, !.aborted = FALSE,
            !.ev = IF u.errors > 0 THEN {"onError"} ELSE {"onSuccess"}]

\* the loop goes on after a file, whether it was uploaded or has failed
nextFile(u) == IF u.i + 1 < u.files THEN uploadFile(u, u.i + 1) ELSE finalize(u)

\* a caller with no call in flight
Idle == [pc |-> "idle", op |-> Null, key |-> Null, val |-> Null, ttl |-> 0,
         seen |-> {}]

\* what a successful remote GET of key answers at this instant
Observed(rem, key) ==
  IF rem[key].value /= Null THEN JSON_parse(rem[key].value) ELSE Null

\* history: every call in flight notes what the remote store holds for its key
Watch(p, rem) ==
  [c \in Callers |->
     IF p[c].pc = "idle" THEN p[c]
     ELSE [p[c] EXCEPT !.seen = @ \cup {Observed(rem, p[c].key)}]]

\* history: whether the entry a set evicts had expired or was still live
Evicted(path) ==
  IF path /= "evict" THEN Null
  ELSE IF now > nodes[nodes[TAIL].prev].expiry THEN "expired" ELSE "live"

\* what a get or a set comes right after, as far as the properties need it
FollowsSet(key) == IF last.op = "set" /\ last.key = key THEN "set" ELSE "-"
FollowsHit(key) ==
  IF last.op = "get" /\ last.path = "hit" /\ last.key /= key THEN "hit" ELSE "-"

\* ------------------------------------------------------------------------
\* Initial state: a freshly constructed MemoryCacheService
\* ------------------------------------------------------------------------
\* the two sentinels pointing at each other, and the empty map
EmptyList ==
  [n \in NodeIds |->
     IF n = HEAD THEN [LRUNode("head", Null, 0, 0) EXCEPT !.next = TAIL]
     ELSE IF n = TAIL THEN [LRUNode("tail", Null, 0, 0) EXCEPT !.prev = HEAD]
     ELSE Blank]
EmptyMap == [k \in Keys |-> NullId]

Fresh ==
  /\ now = 0
  /\ nodes = EmptyList
  /\ cache = EmptyMap
  /\ useOrder = <<>>
  /\ last = Op("init", Null, Null, 0, Null, Null, "-")
  /\ client = "null"
  /\ remote = [k \in Keys |-> Absent]
  /\ remoteEverOk = FALSE
  /\ pending = [c \in Callers |-> Idle]
  /\ resolver = FreshResolver
  /\ upload = FreshUpload

\* ------------------------------------------------------------------------
\* Actions
\* ------------------------------------------------------------------------
Get(key) ==
  LET r == MemoryCacheService_get(nodes, cache, key, now)
  IN /\ nodes' = Collect(r.nodes, r.cache)
     /\ cache' = r.cache
     /\ useOrder' = IF r.path = "hit" THEN Used(useOrder, key, r.cache)
                    ELSE Stored(useOrder, r.cache)
     /\ last' = Op("get", key, Null, 0, r.res, r.path, FollowsSet(key))
     /\ UNCHANGED <<resolver, upload, pending, now, capacity, redisVars>>

Set(key, value, ttl) ==
  /\ FreeIds(nodes, cache) /= {}
  /\ LET r == MemoryCacheService_set(nodes, cache, capacity, key, value, ttl, now)
     IN /\ nodes' = Collect(r.nodes, r.cache)
        /\ cache' = r.cache
        /\ useOrder' = Used(useOrder, key, r.cache)
        /\ last' = Op("set", key, value, ttl, Evicted(r.path), r.path, FollowsHit(key))
  /\ UNCHANGED <<resolver, upload, pending, now, capacity, redisVars>>

Delete(key) ==
  LET r == MemoryCacheService_delete(nodes, cache, key)
  IN /\ nodes' = Collect(r.nodes, r.cache)
     /\ cache' = r.cache
     /\ useOrder' = Stored(useOrder, r.cache)
     /\ last' = Op("delete", key, Null, 0, r.res, Null, "-")
     /\ UNCHANGED <<resolver, upload, pending, now, capacity, redisVars>>

Clear ==
  LET r == MemoryCacheService_clear(nodes, cache)
  IN /\ nodes' = Collect(r.nodes, r.cache)
     /\ cache' = r.cache
     /\ useOrder' = Stored(useOrder, r.cache)
     /\ last' = Op("clear", Null, Null, 0, Null,
                   IF Size > 0 THEN "emptied" ELSE "empty", "-")
     /\ UNCHANGED <<resolver, upload, pending, now, capacity, redisVars>>

\* the setInterval callback, and any direct call of cleanup()
Cleanup ==
  \E r \in {MemoryCacheService_cleanup(nodes, cache, now)} :
     /\ \E h \in {Collect(r.nodes, r.cache)} : nodes' = h
     /\ cache' = r.cache
     /\ useOrder' = Stored(useOrder, r.cache)
     /\ last' = Op("cleanup", Null, Null, 0, Null,
                   IF r.cache /= cache THEN "swept" ELSE "none", "-")
     /\ UNCHANGED <<resolver, upload, pending, now, capacity, redisVars>>

\* the clock advances by one second
Tick ==
  /\ now < MaxTicks * 1000
  /\ now' = now + 1000
  /\ last' = Op("tick", Null, Null, 0, Null, Null, "-")
  /\ remote' = [k \in Keys |-> IF now' > remote[k].expiry THEN Absent ELSE remote[k]]
  /\ pending' = Watch(pending, remote')
  /\ UNCHANGED <<resolver, upload, capacity, nodes, cache, useOrder, useRedis, client, remoteEverOk>>

vars == <<now, capacity, nodes, cache, useOrder, useRedis, client, remote,
          remoteEverOk, last, pending, resolver, upload>>

\* a MemoryCacheService created with any capacity and used directly
Init ==
  /\ Fresh
  /\ capacity \in Capacities
  /\ useRedis = FALSE

Next ==
  \/ \E k \in Keys : Get(k)
  \/ \E k \in Keys, v \in Values, t \in TTLs : Set(k, v, t)
  \/ \E k \in Keys : Delete(k)
  \/ Clear
  \/ Cleanup
  \/ Tick

Spec == Init /\ [][Next]_vars

\* the cache of the process with its cleanup timer: the instance is the one
\* getInstance() creates with the default capacity, and setInterval fires the
\* callback again and again for as long as the process runs
InitTimer ==
  /\ Fresh
  /\ capacity = DefaultCapacity
  /\ useRedis = FALSE

NextTimer ==
  \/ \E k \in UKeys : Get(k)
  \/ \E k \in UKeys, t \in TTLs : Set(k, "v1", t)
  \/ \E k \in UKeys : Delete(k)
  \/ Clear
  \/ Cleanup
  \/ Tick

SpecTimer == InitTimer /\ [][NextTimer]_vars /\ WF_vars(Cleanup)

\* ------------------------------------------------------------------------
\* The facade in its process: the in-process cache has the default capacity
\* (getInstance() is called without an argument), a remote backend is
\* configured or not, and every remote call may fail
\* ------------------------------------------------------------------------
UGet(key, outcome) ==
  LET r == Unified_get(nodes, cache, client, remote, useRedis, key, now,
                       outcome /= "connectFails", outcome = "ok")
  IN /\ nodes' = Collect(r.nodes, r.cache)
     /\ cache' = r.cache
     /\ client' = r.client
     /\ remoteEverOk' = (remoteEverOk \/ r.ok)
     /\ useOrder' = IF r.mpath = "hit" THEN Used(useOrder, key, r.cache)
                    ELSE Stored(useOrder, r.cache)
     /\ last' = Op("uget", key, Null, 0, r.res, Path(r),
                   IF last.op = "uset" /\ last.key = key THEN "set" ELSE "-")
     /\ UNCHANGED <<resolver, upload, pending, now, capacity, useRedis, remote>>

USet(key, value, ttl, outcome) ==
  /\ FreeIds(nodes, cache) /= {}
  /\ LET r == Unified_set(nodes, cache, capacity, client, remote, useRedis, key,
                          value, ttl, now, outcome /= "connectFails",
                          outcome = "ok")
     IN /\ nodes' = Collect(r.nodes, r.cache)
        /\ cache' = r.cache
        /\ client' = r.client
        /\ remote' = r.remote
        /\ remoteEverOk' = (remoteEverOk \/ r.ok)
        /\ useOrder' = IF r.path \in {"fallback", "memory"}
                       THEN Used(useOrder, key, r.cache) ELSE useOrder
        /\ last' = Op("uset", key, value, ttl, Null, Path(r), "-")
  /\ UNCHANGED <<resolver, upload, pending, now, capacity, useRedis>>

UDelete(key) ==
  LET r == Unified_delete(nodes, cache, useRedis, key)
  IN /\ nodes' = Collect(r.nodes, r.cache)
     /\ cache' = r.cache
     /\ useOrder' = Stored(useOrder, r.cache)
     /\ last' = Op("udelete", key, Null, 0, r.res, Path(r), "-")
     /\ UNCHANGED <<resolver, upload, pending, now, capacity, redisVars>>

UClear ==
  LET r == Unified_clear(nodes, cache, useRedis)
  IN /\ nodes' = Collect(r.nodes, r.cache)
     /\ cache' = r.cache
     /\ useOrder' = Stored(useOrder, r.cache)
     /\ last' = Op("uclear", Null, Null, 0, Null, Path(r), "-")
     /\ UNCHANGED <<resolver, upload, pending, now, capacity, redisVars>>

Invalidate(pattern) ==
  LET r == invalidateCache(nodes, cache, useRedis, pattern)
  IN /\ nodes' = Collect(r.nodes, r.cache)
     /\ cache' = r.cache
     /\ useOrder' = Stored(useOrder, r.cache)
     /\ last' = Op("invalidate", pattern, Null, 0, Null, Path(r), "-")
     /\ UNCHANGED <<resolver, upload, pending, now, capacity, redisVars>>

InitU ==
  /\ Fresh
  /\ capacity = DefaultCapacity
  /\ useRedis \in BOOLEAN

NextU ==
  \/ \E k \in UKeys, o \in Outcomes : UGet(k, o)
  \/ \E k \in UKeys, v \in Values, t \in TTLs, o \in Outcomes : USet(k, v, t, o)
  \/ \E k \in UKeys : UDelete(k)
  \/ UClear
  \/ \E p \in Patterns : Invalidate(p)
  \/ Cleanup
  \/ Tick

SpecU == InitU /\ [][NextU]_vars

\* ------------------------------------------------------------------------
\* Asynchronous callers of the facade. A call runs without interruption up to
\* an await and from one await to the next; the awaits are those of the remote
\* backend: client.connect() in CacheService.connect and the command in
\* CacheService.get / set. Without a remote backend a call has no await and is
\* one step.
\* ------------------------------------------------------------------------
\* the call is made: it runs to its first await
CBegin(c, op, key, value, ttl) ==
  /\ pending[c].pc = "idle"
  /\ IF useRedis
     THEN /\ client' = CacheService_connect(client, TRUE).client
          /\ pending' = [pending EXCEPT ![c] =
                           [pc |-> IF client = "null" THEN "connect" ELSE "command",
                            op |-> op, key |-> key, val |-> value, ttl |-> ttl,
                            seen |-> {Observed(remote, key)}]]
          /\ last' = Op("begin", Null, Null, 0, Null, Null, "-")
          /\ UNCHANGED <<resolver, upload, now, capacity, nodes, cache, useOrder, useRedis, remote,
                         remoteEverOk>>
     ELSE IF op = "get" THEN UGet(key, "ok") ELSE USet(key, value, ttl, "ok")

\* the rest of a call from its last await on: cl is the client as the call
\* found it, connectOk and cmdOk what the awaited remote calls did
Finish(c, cl, connectOk, cmdOk) ==
  LET p == pending[c]
      concurrent == IF Cardinality(p.seen) > 1 /\ Null \notin p.seen
                    THEN "concurrent" ELSE "-"
  IN IF p.op = "get"
     THEN LET r == Unified_get(nodes, cache, cl, remote, useRedis, p.key, now,
                               connectOk, cmdOk)
          IN /\ nodes' = Collect(r.nodes, r.cache)
             /\ cache' = r.cache
             /\ remoteEverOk' = (remoteEverOk \/ r.ok)
             /\ useOrder' = IF r.mpath = "hit" THEN Used(useOrder, p.key, r.cache)
                            ELSE Stored(useOrder, r.cache)
             /\ last' = Op("uget", p.key, Null, 0, r.res, Path(r), concurrent)
             /\ pending' = [pending EXCEPT ![c] = Idle]
             /\ UNCHANGED <<resolver, upload, now, capacity, useRedis, client, remote>>
     ELSE LET r == Unified_set(nodes, cache, capacity, cl, remote, useRedis,
                               p.key, p.val, p.ttl, now, connectOk, cmdOk)
          IN /\ nodes' = Collect(r.nodes, r.cache)
             /\ cache' = r.cache
             /\ remote' = r.remote
             /\ remoteEverOk' = (remoteEverOk \/ r.ok)
             /\ useOrder' = IF r.path \in {"fallback", "memory"}
                            THEN Used(useOrder, p.key, r.cache) ELSE useOrder
             /\ last' = Op("uset", p.key, p.val, p.ttl, Null, Path(r), "-")
             /\ pending' = Watch([pending EXCEPT ![c] = Idle], r.remote)
             /\ UNCHANGED <<resolver, upload, now, capacity, useRedis, client>>

\* client.connect() settles: resolved, the call goes on to its command;
\* rejected, connect() throws out of CacheService into the facade's catch
CConnected(c, ok) ==
  /\ pending[c].pc = "connect"
  /\ IF ok
     THEN /\ pending' = [pending EXCEPT ![c].pc = "command"]
          /\ last' = Op("connected", Null, Null, 0, Null, Null, "-")
          /\ UNCHANGED <<resolver, upload, now, capacity, nodes, cache, useOrder, redisVars>>
     ELSE Finish(c, "null", FALSE, FALSE)

\* the command settles: the server has run it, or it was rejected; it cannot
\* have run while the connection was still being made
CCommand(c, ok) ==
  /\ pending[c].pc = "command"
  /\ ok => \A d \in Callers : pending[d].pc /= "connect"
  /\ Finish(c, "created", TRUE, ok)

InitC == InitU

NextC ==
  \/ \E c \in Callers, op \in {"get", "set"}, k \in CKeys, v \in Values, t \in CTTLs :
       CBegin(c, op, k, v, t)
  \/ \E c \in Callers, ok \in BOOLEAN : CConnected(c, ok)
  \/ \E c \in Callers, ok \in BOOLEAN : CCommand(c, ok)
  \/ Tick

SpecC == InitC /\ [][NextC]_vars

\* ------------------------------------------------------------------------
\* The product queries and mutations. A query wrapped by cacheFunction runs
\* to the await of the wrapped resolver, which runs to the await of its
\* database read; a mutation awaits its database write and then clearCache.
\* ------------------------------------------------------------------------
\* the wrapper is called: a live entry is returned at once; otherwise the
\* wrapped resolver starts, requireAuth throws without a user, and with one
\* the database read is awaited
QueryBegin(c, query, user) ==
  LET key == cacheKey(query)
      cached == resolver.wrapperCache[key]
      who == IF user THEN "user" ELSE "anon"
  IN /\ resolver.calls[c].pc = "idle"
     /\ IF cached.present /\ now < cached.expiry
        THEN /\ last' = Op(query, key, who, 0, cached.value, "hit", "-")
             /\ UNCHANGED resolver
        ELSE IF ~user
        THEN /\ last' = Op(query, key, who, 0, Null, "rejected", "-")
             /\ UNCHANGED resolver
        ELSE /\ last' = Op("begin", key, who, 0, Null, Null, "-")
             /\ resolver' = [resolver EXCEPT !.calls[c] =
                               [pc |-> "running", query |-> query, key |-> key]]
     /\ UNCHANGED <<now, capacity, nodes, cache, useOrder, redisVars, pending, upload>>

\* the database read resolves: the result is stored under the key with its
\* expiry and returned
QueryDone(c) ==
  LET call == resolver.calls[c]
      result == resolve(call.query, resolver.product)
  IN /\ call.pc = "running"
     /\ resolver' = [resolver EXCEPT
          !.wrapperCache[call.key] =
             [present |-> TRUE, value |-> result,
              expiry |-> now + ttlOf(call.query) * 1000],
          !.calls[c] = [pc |-> "idle", query |-> Null, key |-> Null]]
     /\ last' = Op(call.query, call.key, "user", 0, result, "computed", "-")
     /\ UNCHANGED <<now, capacity, nodes, cache, useOrder, redisVars, pending, upload>>

\* updateProduct / deleteProduct by the product's owner, up to the end of the
\* database write
MutationCommit(kind) ==
  /\ resolver.mutation = "idle"
  /\ IF kind = "updateProduct"
     THEN /\ resolver.product.version < MaxUpdates
          /\ resolver' = [resolver EXCEPT !.product.version = @ + 1,
                                          !.mutation = kind]
     ELSE /\ ~resolver.product.deleted
          /\ resolver' = [resolver EXCEPT !.product.deleted = TRUE,
                                          !.mutation = kind]
  /\ last' = Op("commit", "product:p1", "user", 0, Null, Null, "-")
  /\ UNCHANGED <<now, capacity, nodes, cache, useOrder, redisVars, pending, upload>>

\* the rest of the mutation: clearCache([...]) of cache.helpers, then the
\* mutation resolves
MutationResolve ==
  /\ resolver.mutation /= "idle"
  /\ resolver' = [resolver EXCEPT
       !.helperCache = invalidateKeys(resolver.helperCache, ClearedKeys),
       !.mutation = "idle"]
  /\ last' = Op(resolver.mutation, "product:p1", "user", 0, Null, "resolved", "-")
  /\ UNCHANGED <<now, capacity, nodes, cache, useOrder, redisVars, pending, upload>>

InitR == InitU

NextR ==
  \/ \E c \in Callers, q \in Queries, user \in BOOLEAN : QueryBegin(c, q, user)
  \/ \E c \in Callers : QueryDone(c)
  \/ \E kind \in Mutations : MutationCommit(kind)
  \/ MutationResolve
  \/ Tick

SpecR == InitR /\ [][NextR]_vars

\* ------------------------------------------------------------------------
\* A batch upload of the hook, one step per await of the upload loop
\* ------------------------------------------------------------------------
notUpload == <<now, capacity, nodes, cache, useOrder, redisVars, last, pending,
               resolver>>

\* startUpload(files, productId) with files.length = n: a file that fails
\* validation ends the call; otherwise the controller is created, the state
\* initialised and uploadFiles() runs to its first await
StartUpload(n, valid) ==
  /\ upload.pc = "idle"
  /\ IF ~valid
     THEN /\ n > 0
          /\ upload' = [upload EXCEPT !.uploadState.errors = <<"File 1">>,
                                       !.ev = {"onError"}]
     ELSE LET u == [upload EXCEPT
                      !.uploadState = UploadProgress("Preparing upload...", 0, TRUE,
                                                     "", 0, n, <<>>),
                      !.abortControllerRef = "live",
                      !.files = n, !.i = 0, !.errors = 0, !.cancelAt = NullId]
          IN upload' = IF n = 0 THEN finalize(u) ELSE uploadFile(u, 0)
  /\ UNCHANGED notUpload

\* the signature fetch settles: with the signature the XMLHttpRequest is sent,
\* and it is tied to the abort signal only if abortControllerRef.current is
\* set at that moment; a fetch whose signal has fired can only reject
SigDone(ok) ==
  /\ upload.pc = "sig"
  /\ ok => ~upload.aborted
  /\ upload' = IF ok
                THEN [upload EXCEPT !.pc = "xhr",
                                    !.armed = (upload.abortControllerRef = "live"),
                                    !.ev = {"request"}]
                ELSE [upload EXCEPT !.pc = "failed", !.armed = FALSE,
                                    !.aborted = FALSE, !.ev = {}]
  /\ UNCHANGED notUpload

\* a progress event of the XMLHttpRequest: onFileProgress sets the overall
\* progress
XhrProgress(fileProgress) ==
  /\ upload.pc = "xhr"
  /\ ~upload.aborted
  /\ upload' = [upload EXCEPT
       !.uploadState.progress = (upload.i * 100 + fileProgress) \div upload.files,
       !.ev = {"progress"}]
  /\ UNCHANGED notUpload

\* the XMLHttpRequest ends: on load with status 200 the save fetch starts,
\* with the signal of abortControllerRef.current, if there is one; on error,
\* abort or another status the attempt rejects
XhrDone(ok) ==
  /\ upload.pc = "xhr"
  /\ ok => ~upload.aborted
  /\ upload' = IF ok
                THEN [upload EXCEPT !.pc = "save",
                                    !.armed = (upload.abortControllerRef = "live"),
                                    !.ev = {"request"}]
                ELSE [upload EXCEPT !.pc = "failed", !.armed = FALSE,
                                    !.aborted = FALSE, !.ev = {}]
  /\ UNCHANGED notUpload

\* the save fetch settles: the file is counted as completed and the loop goes
\* on, or the attempt rejects
SaveDone(ok) ==
  /\ upload.pc = "save"
  /\ ok => ~upload.aborted
  /\ upload' = IF ok
                THEN nextFile([upload EXCEPT
                       !.uploadState.completed = upload.i + 1,
                       !.uploadState.progress = ((upload.i + 1) * 100) \div upload.files])
                ELSE [upload EXCEPT !.pc = "failed", !.armed = FALSE,
                                    !.aborted = FALSE, !.ev = {}]
  /\ UNCHANGED notUpload

\* await retry(() => uploadSingleFile(...), maxRetries, retryDelay) after an
\* attempt has rejected: retry calls uploadSingleFile again, at most
\* maxRetries times in all, or rejects; then the catch block records the
\* error and the loop goes on with the next file
Retry(again) ==
  /\ upload.pc = "failed"
  /\ IF again
     THEN /\ upload.attempt < maxRetries
          /\ upload' = [upload EXCEPT !.pc = "sig", !.attempt = @ + 1,
                                       !.armed = (upload.abortControllerRef = "live"),
                                       !.aborted = FALSE, !.ev = {"request"}]
     ELSE upload' = nextFile([upload EXCEPT
                      !.errors = @ + 1,
                      !.uploadState.errors = Append(@, fileName(upload.i))])
  /\ UNCHANGED notUpload

\* cancelUpload(): the controller, if any, is aborted and forgotten, and the
\* state is set to Cancelled
CancelUpload ==
  /\ upload' = [upload EXCEPT
       !.aborted = @ \/ (upload.abortControllerRef = "live" /\ upload.armed),
       !.abortControllerRef = "null",
       !.uploadState = CancelledUpload,
       !.cancelAt = IF /\ upload.pc \in {"sig", "xhr", "save", "failed"}
                       /\ upload.files > 1
                       /\ @ = NullId
                    THEN upload.i ELSE @,
       !.ev = {}]
  /\ UNCHANGED notUpload

\* the timer uploadFiles sets at its end fires
AutoClear ==
  /\ upload.pc = "clearing"
  /\ upload' = [upload EXCEPT !.uploadState = NoUpload, !.pc = "idle", !.ev = {}]
  /\ UNCHANGED notUpload

InitUp == InitTimer

NextUp ==
  \/ \E n \in 0..MaxFiles, valid \in BOOLEAN : StartUpload(n, valid)
  \/ \E ok \in BOOLEAN : SigDone(ok)
  \/ \E fileProgress \in {50, 100} : XhrProgress(fileProgress)
  \/ \E ok \in BOOLEAN : XhrDone(ok)
  \/ \E ok \in BOOLEAN : SaveDone(ok)
  \/ \E again \in BOOLEAN : Retry(again)
  \/ CancelUpload
  \/ AutoClear

SpecUp == InitUp /\ [][NextUp]_vars

\* ------------------------------------------------------------------------
\* Observations of the state
\* ------------------------------------------------------------------------
StoredIn(c) == {k \in Keys : c[k] /= NullId}
StoredKeys == StoredIn(cache)

\* the node ids met from `from` along next (or prev) pointers, `from` included,
\* up to the end sentinel, a null pointer or `fuel` steps
RECURSIVE Chain(_, _, _, _)
Chain(h, from, dir, fuel) ==
  IF from = NullId \/ fuel = 0 THEN <<>>
  ELSE IF (dir = "next" /\ from = TAIL) \/ (dir = "prev" /\ from = HEAD) THEN <<from>>
  ELSE <<from>> \o Chain(h, IF dir = "next" THEN h[from].next ELSE h[from].prev,
                         dir, fuel - 1)

Reverse(s) == [i \in 1..Len(s) |-> s[Len(s) + 1 - i]]
Range(s) == {s[i] : i \in 1..Len(s)}
Inner(s) == IF Len(s) >= 2 THEN SubSeq(s, 2, Len(s) - 1) ELSE <<>>

Forward(h) == Chain(h, HEAD, "next", Cardinality(NodeIds) + 1)
Backward(h) == Chain(h, TAIL, "prev", Cardinality(NodeIds) + 1)

\* the keys of the list, most recently used first
KeysOf(h) ==
  LET inner == Inner(Forward(h))
  IN [i \in 1..Len(inner) |-> h[inner[i]].key]
ListKeys == KeysOf(nodes)

\* ------------------------------------------------------------------------
\* C1: the number of stored entries never exceeds the configured capacity,
\* whatever capacity the cache was created with.
\* ------------------------------------------------------------------------
C1_SizeWithinCapacity == Size <= capacity

\* ------------------------------------------------------------------------
\* C2: a set of a new key into a cache that is at capacity removes exactly one
\* entry, the least recently used one; every other entry stays and the new key
\* becomes the most recently used entry.
\* ------------------------------------------------------------------------
EvictsLRU ==
  /\ Size >= 1
  /\ StoredIn(cache') = (StoredKeys \ {useOrder[Len(useOrder)]}) \cup {last'.key}
  /\ Cardinality(StoredIn(cache')) = Size
  /\ KeysOf(nodes') = <<last'.key>> \o SubSeq(ListKeys, 1, Len(ListKeys) - 1)
  /\ \A k \in StoredKeys \cap StoredIn(cache') :
       /\ nodes'[cache'[k]].value = nodes[cache[k]].value
       /\ nodes'[cache'[k]].expiry = nodes[cache[k]].expiry

C2_LRUEviction ==
  [][(last'.op = "set" /\ cache[last'.key] = NullId /\ Size >= capacity)
       => EvictsLRU]_vars

\* C2 on the caches created with a capacity of at least one
C2_LRUEvictionPositiveCapacity ==
  [][(last'.op = "set" /\ cache[last'.key] = NullId /\ Size >= capacity
        /\ capacity >= 1)
       => EvictsLRU]_vars

\* ------------------------------------------------------------------------
\* C3: the keys of the map are the keys of the nodes between the sentinels,
\* walking next pointers from head to tail and prev pointers back; no node
\* twice, no orphaned node, no dangling map entry.
\* ------------------------------------------------------------------------
C3_MapListConsistent ==
  LET f == Forward(nodes)
      b == Backward(nodes)
      inner == Inner(f)
  IN /\ Len(f) >= 2 /\ f[1] = HEAD /\ f[Len(f)] = TAIL
     /\ b = Reverse(f)
     /\ nodes[HEAD].prev = NullId /\ nodes[TAIL].next = NullId
     /\ Cardinality(Range(inner)) = Len(inner)
     /\ Range(inner) \cap {HEAD, TAIL} = {}
     /\ Range(inner) = {cache[k] : k \in StoredKeys}
     /\ \A k \in StoredKeys : nodes[cache[k]].key = k
     /\ Len(inner) = Size

\* two entries are linked between the sentinels right after an eviction
C3_Witness ==
  /\ last.op = "set" /\ last.path = "evict"
  /\ Size = 2 /\ Len(Forward(nodes)) = 4
  /\ now > 0

\* ------------------------------------------------------------------------
\* C4: the list is ordered by last use: a successful get, or a set on a stored
\* key, moves that entry next to the head and keeps the relative order of the
\* others; with capacity 2 and two entries, a get of the older one followed by
\* a set of a third key evicts the other one.
\* ------------------------------------------------------------------------
C4_RecencyOrder ==
  [][LET after == KeysOf(nodes')
     IN /\ after = useOrder'
        /\ (last'.op = "get" /\ last'.path = "hit")
             => after = <<last'.key>> \o Without(ListKeys, last'.key)
        /\ (last'.op = "set" /\ cache[last'.key] /= NullId)
             => after = <<last'.key>> \o Without(ListKeys, last'.key)
        /\ (capacity = 2 /\ Size = 2 /\ last.op = "get" /\ last.path = "hit"
              /\ last'.op = "set" /\ cache[last'.key] = NullId)
             => /\ cache'[last.key] /= NullId
                /\ after = <<last'.key, last.key>>]_vars

C4_Witness ==
  /\ capacity = 2 /\ Size = 2
  /\ last.op = "set" /\ last.path = "evict" /\ last.follows = "hit"
  /\ Len(ListKeys) = 2 /\ ListKeys[1] = last.key

\* ------------------------------------------------------------------------
\* C5: get never returns the value of an entry whose expiry (time of its last
\* set plus the TTL) is earlier than the time of the get.
\* ------------------------------------------------------------------------
C5_NeverServesExpired ==
  [][/\ last'.op = "set"
          => nodes'[cache'[last'.key]].expiry = now + last'.ttl * 1000
     /\ (last'.op = "get" /\ cache[last'.key] /= NullId
           /\ nodes[cache[last'.key]].expiry < now)
          => last'.res = Null
     /\ (last'.op = "get" /\ last'.res /= Null)
          => /\ cache[last'.key] /= NullId
             /\ nodes[cache[last'.key]].expiry >= now
             /\ last'.res = nodes[cache[last'.key]].value]_vars

C5_Witness ==
  /\ last.op = "get" /\ last.path = "expired" /\ last.res = Null
  /\ cache[last.key] = NullId

\* ------------------------------------------------------------------------
\* C6: after set(key, v, ttl) with ttl > 0, a get(key) issued right after it
\* (no operation and no clock advance in between) returns v.
\* ------------------------------------------------------------------------
C6_RoundTrip ==
  [][(last.op = "set" /\ last.ttl > 0 /\ last'.op = "get" /\ last'.key = last.key)
       => last'.res = last.val]_vars

C6_Witness ==
  /\ last.op = "get" /\ last.follows = "set" /\ last.path = "hit"
  /\ last.res \in Values

\* ------------------------------------------------------------------------
\* C7: a set on a stored key replaces its value and expiry, evicts nothing and
\* leaves the size unchanged, also when the cache is at capacity.
\* ------------------------------------------------------------------------
C7_UpdateInPlace ==
  [][(last'.op = "set" /\ cache[last'.key] /= NullId)
       => /\ StoredIn(cache') = StoredKeys
          /\ Cardinality(StoredIn(cache')) = Size
          /\ nodes'[cache'[last'.key]].value = last'.val
          /\ nodes'[cache'[last'.key]].expiry = now + last'.ttl * 1000
          /\ \A k \in StoredKeys \ {last'.key} :
               /\ nodes'[cache'[k]].value = nodes[cache[k]].value
               /\ nodes'[cache'[k]].expiry = nodes[cache[k]].expiry]_vars

C7_Witness ==
  /\ last.op = "set" /\ last.path = "update"
  /\ capacity >= 1 /\ Size >= capacity
  /\ nodes[cache[last.key]].value = last.val

\* what the in-process cache answers for key at this instant
Holds(k) ==
  IF cache[k] /= NullId /\ nodes[cache[k]].expiry >= now
  THEN nodes[cache[k]].value ELSE Null

\* the remote call of the last facade call failed
RemoteFailed(op) == op.path \in {"fallback", "swallowed"}

\* ------------------------------------------------------------------------
\* C8: with a remote backend configured and failing on every operation, a
\* get(k) that follows a completed set(k, v, ttl > 0) returns v.
\* ------------------------------------------------------------------------
C8_FallbackRoundTrip ==
  [][(useRedis /\ ~remoteEverOk' /\ last.op = "uset" /\ last.ttl > 0
        /\ last'.op = "uget" /\ last'.key = last.key)
       => last'.res = last.val]_vars

\* ------------------------------------------------------------------------
\* C9: with a remote backend configured, a get whose remote lookup fails
\* returns what the in-process cache holds for the key (its value or absent).
\* ------------------------------------------------------------------------
C9_ReadFallback ==
  [][(useRedis /\ last'.op = "uget" /\ RemoteFailed(last'))
       => last'.res = Holds(last'.key)]_vars

\* ------------------------------------------------------------------------
\* C10: with a remote backend configured, a set whose remote write fails
\* stores the value in the in-process cache, which holds it right after.
\* ------------------------------------------------------------------------
C10_WriteFallback ==
  [][(useRedis /\ last'.op = "uset" /\ last'.ttl > 0 /\ RemoteFailed(last'))
       => /\ cache'[last'.key] /= NullId
          /\ nodes'[cache'[last'.key]].value = last'.val
          /\ nodes'[cache'[last'.key]].expiry = now + last'.ttl * 1000]_vars

\* what the code does instead: the fallback is taken only when connect()
\* throws, that is on the first remote call of the process
FallbackOnlyOnConnectFailure ==
  [][(useRedis /\ last'.op \in {"uget", "uset"} /\ last'.path = "fallback")
       => client = "null" /\ client' = "created"]_vars

\* ------------------------------------------------------------------------
\* C11: with a reachable remote backend, after the facade's delete(k) has
\* completed, neither the remote backend nor the in-process cache holds k, so
\* a following get(k) returns absent.
\* ------------------------------------------------------------------------
C11_DeleteEverywhere ==
  [][/\ (useRedis /\ last'.op = "udelete")
          => /\ remote'[last'.key] = Absent
             /\ cache'[last'.key] = NullId
     /\ (useRedis /\ last.op = "udelete" /\ last'.op = "uget"
           /\ last'.key = last.key /\ last'.path = "remote")
          => last'.res = Null]_vars

\* ------------------------------------------------------------------------
\* C12: with a reachable remote backend, after the facade's clear() has
\* completed, a get of any key set before the clear returns absent.
\* ------------------------------------------------------------------------
C12_ClearEverywhere ==
  [][/\ (useRedis /\ last'.op = "uclear")
          => \A k \in Keys : remote'[k] = Absent /\ cache'[k] = NullId
     /\ (useRedis /\ last.op = "uclear" /\ last'.op = "uget"
           /\ last'.path = "remote")
          => last'.res = Null]_vars

\* ------------------------------------------------------------------------
\* C13: with only the in-process cache active, after invalidateCache(pattern)
\* the in-process cache is empty for every pattern, so no entry whose key
\* matches the pattern can still be served.
\* ------------------------------------------------------------------------
C13_InvalidateNeverUnderClears ==
  [][(~useRedis /\ last'.op = "invalidate")
       => \A k \in Keys : Matches(last'.key, k) => cache'[k] = NullId]_vars

\* ------------------------------------------------------------------------
\* C14: with a reachable remote backend, invalidateCache(pattern) removes
\* from the remote backend every key that matches the pattern and leaves the
\* other remote keys in place.
\* ------------------------------------------------------------------------
C14_InvalidateRemotePrecise ==
  [][(useRedis /\ last'.op = "invalidate")
       => \A k \in Keys :
            /\ Matches(last'.key, k) => remote'[k] = Absent
            /\ ~Matches(last'.key, k) => remote'[k] = remote[k]]_vars

\* ------------------------------------------------------------------------
\* C15: no call of the facade's get, set, delete or clear, and no call of
\* invalidateCache, throws to its caller, whichever remote call failed and
\* however: every such call ends on one of its returning paths
\* ------------------------------------------------------------------------
FacadeOps == {"uget", "uset", "udelete", "uclear", "invalidate"}

C15_NoBackendErrorEscapes ==
  last.op \in FacadeOps =>
    /\ last.path /= "error"
    /\ last.path \in {"remote", "swallowed", "fallback", "memory", "cleared", "kept"}

\* a remote call has thrown inside the facade and the call returned all the same
C15_Witness ==
  /\ useRedis
  /\ last.op \in {"uget", "uset", "udelete", "uclear"}
  /\ last.path = "fallback"

\* ------------------------------------------------------------------------
\* C16: a caller that awaits each call: a get(k) issued right after set(k, v)
\* that returns a value returns v, whatever the remote calls did
\* ------------------------------------------------------------------------
C16_PerKeyLinearization ==
  [][(/\ last.op = "uset"
      /\ last'.op = "uget"
      /\ last'.key = last.key
      /\ last'.res /= Null) => last'.res = last.val]_vars

\* ------------------------------------------------------------------------
\* C18: delete(key) answers true exactly when key was stored; it then takes
\* the entry out of the map and out of the list, the other entries staying as
\* they were, and a get(key) that follows finds nothing; on a key that is not
\* stored it answers false and changes nothing.
\* ------------------------------------------------------------------------
C18_Delete ==
  [][/\ last'.op = "delete" =>
          /\ (last'.res = "true") <=> (cache[last'.key] /= NullId)
          /\ last'.res \in {"true", "false"}
          /\ cache'[last'.key] = NullId
          /\ \A k \in Keys \ {last'.key} : cache'[k] = cache[k]
          /\ KeysOf(nodes') = Without(ListKeys, last'.key)
          /\ Reverse(Backward(nodes')) = Forward(nodes')
          /\ cache[last'.key] = NullId => (nodes' = nodes /\ cache' = cache)
     /\ (last.op = "delete" /\ last'.op = "get" /\ last'.key = last.key)
          => (last'.res = Null /\ last'.path = "miss")]_vars

\* a stored entry was deleted and others are still there
C18_Witness ==
  /\ last.op = "delete" /\ last.res = "true"
  /\ cache[last.key] = NullId
  /\ Size >= 1

\* ------------------------------------------------------------------------
\* C19: clear() leaves the cache as a freshly created one: no entry in the
\* map, the sentinels pointing at each other, nothing else in the list; every
\* get that follows finds nothing.
\* ------------------------------------------------------------------------
C19_Clear ==
  [][/\ last'.op = "clear" =>
          /\ Cardinality(StoredIn(cache')) = 0
          /\ nodes'[HEAD].next = TAIL
          /\ nodes'[TAIL].prev = HEAD
          /\ nodes' = EmptyList
          /\ cache' = EmptyMap
     /\ (last.op = "clear" /\ last'.op = "get")
          => (last'.res = Null /\ last'.path = "miss")]_vars

\* a cache that held entries was cleared
C19_Witness ==
  /\ last.op = "clear" /\ last.path = "emptied"
  /\ Size = 0
  /\ nodes[HEAD].next = TAIL

\* ------------------------------------------------------------------------
\* C20: a get(key) that finds the entry expired answers absent and removes the
\* entry from the map and from the list, one entry fewer; it is not promoted,
\* and the other entries keep their content and their order.
\* ------------------------------------------------------------------------
C20_LazyExpiry ==
  [][(/\ last'.op = "get"
      /\ cache[last'.key] /= NullId
      /\ now > nodes[cache[last'.key]].expiry)
       => /\ last'.res = Null
          /\ cache'[last'.key] = NullId
          /\ Cardinality(StoredIn(cache')) = Size - 1
          /\ KeysOf(nodes') = Without(ListKeys, last'.key)
          /\ Reverse(Backward(nodes')) = Forward(nodes')
          /\ \A k \in StoredKeys \ {last'.key} :
               /\ cache'[k] = cache[k]
               /\ nodes'[cache'[k]].value = nodes[cache[k]].value
               /\ nodes'[cache'[k]].expiry = nodes[cache[k]].expiry]_vars

\* an expired entry was found by get while another entry was stored
C20_Witness ==
  /\ last.op = "get" /\ last.path = "expired"
  /\ cache[last.key] = NullId
  /\ Size >= 1

\* ------------------------------------------------------------------------
\* C17: with asynchronous callers interleaved at the awaits, a get answers a
\* value its key held at some instant of the call (the old value or the new
\* one of a concurrent set), and no step leaves a partly written entry: in
\* both stores an entry's value and expiry are those of one set, and a node of
\* the map is linked in the list in both directions.
\* ------------------------------------------------------------------------
C17_AtomicReplacement ==
  [][/\ \A c \in Callers :
          (pending[c].pc /= "idle" /\ pending'[c].pc = "idle" /\ pending[c].op = "get")
            => /\ last'.op = "uget" /\ last'.key = pending[c].key
               /\ last'.path = "remote" => last'.res \in pending[c].seen
               /\ last'.path = "fallback" => last'.res = Holds(pending[c].key)
               /\ last'.res /= Null =>
                    last'.res \in pending[c].seen \cup {Holds(pending[c].key)}
     /\ (~useRedis /\ last'.op = "uget") => last'.res = Holds(last'.key)
     /\ \A k \in StoredIn(cache') :
          \/ /\ cache[k] /= NullId
             /\ nodes'[cache'[k]].value = nodes[cache[k]].value
             /\ nodes'[cache'[k]].expiry = nodes[cache[k]].expiry
          \/ /\ last'.op = "uset" /\ last'.key = k
             /\ nodes'[cache'[k]].value = last'.val
             /\ nodes'[cache'[k]].expiry = now + last'.ttl * 1000
     /\ \A k \in Keys :
          \/ remote'[k] = remote[k]
          \/ remote'[k] = Absent
          \/ /\ last'.op = "uset" /\ last'.key = k
             /\ remote'[k] = [value |-> JSON_stringify(last'.val),
                              expiry |-> now + last'.ttl * 1000]
     /\ Reverse(Backward(nodes')) = Forward(nodes')
     /\ \A k \in StoredIn(cache') : cache'[k] \in Range(Inner(Forward(nodes')))]_vars

\* a get has returned a value after a set on its key by the other caller ran
\* during the call, over an entry that was there
C17_Witness ==
  /\ useRedis
  /\ last.op = "uget" /\ last.follows = "concurrent"
  /\ last.path = "remote" /\ last.res /= Null

\* ------------------------------------------------------------------------
\* C21: cleanup() removes exactly the entries whose expiry has passed, wherever
\* they stand in the list; the entries that stay keep their nodes, values,
\* expiries and their order, and the list still runs both ways.
\* ------------------------------------------------------------------------
C21_Cleanup ==
  [][last'.op = "cleanup" =>
       LET live == {k \in StoredKeys : ~(now > nodes[cache[k]].expiry)}
       IN /\ StoredIn(cache') = live
          /\ \A k \in live :
               /\ cache'[k] = cache[k]
               /\ nodes'[cache'[k]].value = nodes[cache[k]].value
               /\ nodes'[cache'[k]].expiry = nodes[cache[k]].expiry
          /\ KeysOf(nodes') = SelectSeq(ListKeys, LAMBDA k : k \in live)
          /\ Reverse(Backward(nodes')) = Forward(nodes')
          /\ last'.path = "swept" <=> live /= StoredKeys]_vars

\* a cleanup has removed an expired entry and left a live one
C21_Witness ==
  /\ last.op = "cleanup" /\ last.path = "swept"
  /\ Size >= 1
  /\ \A k \in StoredKeys : ~(now > nodes[cache[k]].expiry)

\* ------------------------------------------------------------------------
\* C22: an entry set with a time to live of zero or less has expired at once:
\* the get of its key that follows the set, at the same instant too, finds
\* nothing.
\* ------------------------------------------------------------------------
C22_NonPositiveTTLExpiresAtOnce ==
  [][(/\ last.op = "set" /\ last.ttl <= 0
      /\ last'.op = "get" /\ last'.key = last.key) => last'.res = Null]_vars

\* ------------------------------------------------------------------------
\* C23: an expired entry stays in the map, and so in size and in the capacity
\* test of set, until a get of its key, a delete, a cleanup, a clear or an
\* eviction removes it; the set of a new key into a full cache evicts the
\* least recently used entry whether it has expired or not, and no other.
\* ------------------------------------------------------------------------
C23_ExpiredOccupyCapacity ==
  [][/\ \A k \in StoredKeys :
          cache'[k] = NullId =>
            \/ last'.op = "get" /\ last'.key = k /\ now > nodes[cache[k]].expiry
            \/ last'.op = "delete" /\ last'.key = k
            \/ last'.op = "cleanup" /\ now > nodes[cache[k]].expiry
            \/ last'.op = "clear"
            \/ last'.op = "set" /\ last'.key /= k /\ Size >= capacity
                 /\ k = ListKeys[Len(ListKeys)]
     /\ (/\ last'.op = "set" /\ cache[last'.key] = NullId
         /\ Size >= capacity /\ Size >= 1)
          => /\ StoredIn(cache') =
                  (StoredKeys \ {ListKeys[Len(ListKeys)]}) \cup {last'.key}
             /\ Cardinality(StoredIn(cache')) = Size]_vars

\* a full cache has evicted a live entry while an expired one stays stored
C23_Witness ==
  /\ last.op = "set" /\ last.path = "evict" /\ last.res = "live"
  /\ capacity >= 2 /\ Size = capacity
  /\ \E k \in StoredKeys : now > nodes[cache[k]].expiry

\* ------------------------------------------------------------------------
\* C24: with the cleanup timer firing again and again, an entry whose expiry
\* has passed does not stay stored for ever, whether or not its key is used
\* again.
\* ------------------------------------------------------------------------
ExpiredStored(k) == cache[k] /= NullId /\ now > nodes[cache[k]].expiry

C24_ExpiredEventuallyRemoved ==
  \A k \in UKeys : ExpiredStored(k) ~> ~ExpiredStored(k)

\* the timer has removed an expired entry
C24_Witness ==
  /\ last.op = "cleanup" /\ last.path = "swept"
  /\ \A k \in Keys : ~ExpiredStored(k)
  /\ now > 0

\* ------------------------------------------------------------------------
\* C25: without a remote backend configured, get, set, delete and clear of the
\* facade leave the remote backend alone and do what the operation of the same
\* name of MemoryCacheService does: same result, same map, same list.
\* ------------------------------------------------------------------------
C25_MemoryOnlyIsMemoryCache ==
  [][~useRedis =>
       /\ client' = "null" /\ remote' = remote /\ ~remoteEverOk'
       /\ last'.op \in FacadeOps \ {"invalidate"} => last'.path = "memory"
       /\ last'.op = "uget" =>
            LET m == MemoryCacheService_get(nodes, cache, last'.key, now)
            IN /\ nodes' = Collect(m.nodes, m.cache) /\ cache' = m.cache
               /\ last'.res = m.res
       /\ last'.op = "uset" =>
            LET m == MemoryCacheService_set(nodes, cache, capacity, last'.key,
                                            last'.val, last'.ttl, now)
            IN nodes' = Collect(m.nodes, m.cache) /\ cache' = m.cache
       /\ last'.op = "udelete" =>
            LET m == MemoryCacheService_delete(nodes, cache, last'.key)
            IN /\ nodes' = Collect(m.nodes, m.cache) /\ cache' = m.cache
               /\ last'.res = m.res
       /\ last'.op = "uclear" =>
            LET m == MemoryCacheService_clear(nodes, cache)
            IN nodes' = Collect(m.nodes, m.cache) /\ cache' = m.cache]_vars

\* the facade has answered a get from the in-process cache, no remote backend
\* configured and none created
C25_Witness ==
  /\ ~useRedis /\ client = "null"
  /\ last.op = "uget" /\ last.path = "memory" /\ last.res \in Values

\* ------------------------------------------------------------------------
\* C26: a get of a key that is not stored answers absent and changes nothing:
\* same map, same nodes with the same links and expiries, same size.
\* ------------------------------------------------------------------------
C26_MissHasNoEffect ==
  [][(last'.op = "get" /\ cache[last'.key] = NullId)
       => /\ last'.res = Null /\ last'.path = "miss"
          /\ cache' = cache
          /\ nodes' = nodes
          /\ KeysOf(nodes') = ListKeys
          /\ Cardinality(StoredIn(cache')) = Size]_vars

\* a miss, with an expired entry still stored at the tail
C26_Witness ==
  /\ last.op = "get" /\ last.path = "miss"
  /\ Size >= 1
  /\ nodes[TAIL].prev /= HEAD /\ now > nodes[nodes[TAIL].prev].expiry

\* ------------------------------------------------------------------------
\* C27: once updateProduct or deleteProduct has resolved, the entries
\* 'product:<id>' and 'products:all' of the resolver cache are gone, and the
\* query that comes next is not answered from the cache.
\* ------------------------------------------------------------------------
C27_MutationInvalidates ==
  [][/\ last'.op \in Mutations =>
          /\ ~resolver'.wrapperCache["product:p1"].present
          /\ ~resolver'.wrapperCache["products:all"].present
     /\ (last.op \in Mutations /\ last'.op \in Queries) => last'.path /= "hit"]_vars

\* ------------------------------------------------------------------------
\* C28: getAllproducts and getProductById return product data to no call
\* without a user: every such call is rejected, a live cached entry or not.
\* ------------------------------------------------------------------------
C28_CachedResolversRequireAuth ==
  (last.op \in Queries /\ last.val = "anon") => last.path = "rejected"

\* ------------------------------------------------------------------------
\* C29: two overlapping calls of a wrapped resolver with the same uncached key
\* do not both run the wrapped resolver.
\* ------------------------------------------------------------------------
C29_NoDuplicateComputation ==
  \A c, d \in Callers :
    (/\ c /= d
     /\ resolver.calls[c].pc = "running"
     /\ resolver.calls[d].pc = "running")
      => resolver.calls[c].key /= resolver.calls[d].key

\* C30: once cancelUpload() has been called during a startUpload of several
\* files, no request is started for a later file, uploadState stays as
\* cancelUpload has set it (stage "Cancelled", isActive false), and neither
\* onSuccess nor a progress update is delivered.
C30_CancelStopsBatch ==
  upload.cancelAt /= NullId =>
     /\ ~("request" \in upload.ev /\ upload.i > upload.cancelAt)
     /\ upload.uploadState.stage = "Cancelled"
     /\ ~upload.uploadState.isActive
     /\ upload.ev \cap {"onSuccess", "progress"} = {}

====
